---------------------------- MODULE Spec2Model ----------------------------
(***************************************************************************)
(* Model of the engram-mcp request-proxying core:                          *)
(*   - the sliding-window rate limiter (security/rate-limiter.ts),         *)
(*   - the HTTP client with timeout and bounded retries (engram-api.ts),   *)
(*   - the tool handlers and handleError (index.ts),                       *)
(*   - the input validators the handlers call (security/validator.ts).     *)
(*                                                                         *)
(* Time is in milliseconds, as Date.now() reports it.  Strings that the    *)
(* code inspects character by character are sequences of character codes. *)
(***************************************************************************)
EXTENDS Integers, Sequences, FiniteSets, TLC

(***************************************************************************)
(* Bounds of the exploration.                                              *)
(***************************************************************************)
\* number of direct checkRateLimit calls explored by SpecRL
MaxCalls == 3
\* number of clock advances explored by SpecRL
MaxTicks == 3

(***************************************************************************)
(* security/rate-limiter.ts                                                *)
(***************************************************************************)
RATE_LIMITS ==
    ("remember" :> [maxRequests |-> 30, windowMs |-> 60000]) @@
    ("recall"   :> [maxRequests |-> 60, windowMs |-> 60000]) @@
    ("search"   :> [maxRequests |-> 60, windowMs |-> 60000]) @@
    ("forget"   :> [maxRequests |-> 10, windowMs |-> 60000]) @@
    ("context"  :> [maxRequests |-> 20, windowMs |-> 60000]) @@
    ("health"   :> [maxRequests |-> 60, windowMs |-> 60000]) @@
    ("observe"  :> [maxRequests |-> 30, windowMs |-> 60000])

\* the operation keys of the route table; "stats" has no entry in RATE_LIMITS
OperationKeys ==
    {"remember", "recall", "search", "forget", "context", "observe",
     "health", "stats"}

VARIABLES
    now,        \* the clock, Date.now()
    windows,    \* the limiter's Map: operation key -> recorded timestamps
    admitted,   \* history: per key, the timestamps of every admitted call
    rl,         \* history: what the most recent checkRateLimit call did
    nCalls,     \* history: number of direct checkRateLimit calls
    nTicks,     \* history: number of clock advances
    config,     \* the Config the EngramAPI was constructed with
    lastHealthy,\* EngramAPI.lastHealthy
    lastOkAt,   \* history: clock value of the latest 2xx response, -1 if none
    ops,        \* per concurrent invocation: where its handler stands
    val         \* history: the latest direct call of a validator or loadConfig

rlVars == <<windows, admitted, rl, nCalls>>
apiVars == <<config, lastHealthy, lastOkAt, ops, val>>
vars == <<now, windows, admitted, rl, nCalls, nTicks, config, lastHealthy,
          lastOkAt, ops, val>>

\* `const limit = RATE_LIMITS[operation]; if (!limit) return;`
HasLimit(operation) == operation \in DOMAIN RATE_LIMITS

\* (variant: the width taken in seconds where the clock counts milliseconds)
Unexpired_seconds(t, at, windowMs) == at - t < windowMs \div 1000

\* the predicate of `timestamps.filter(t => now - t < limit.windowMs)`
Unexpired(t, at, windowMs) == at - t < windowMs

\* (variant: nothing is pruned)
Retained_unpruned(operation, at) == windows[operation]

\* `windows.get(key) || []` followed by the filter
Retained(operation, at) ==
    SelectSeq(windows[operation],
              LAMBDA t : Unexpired(t, at, RATE_LIMITS[operation].windowMs))

\* (variant: the comparison is strict, `>` in place of `>=`)
OverLimit_strict(operation, at) ==
    Len(Retained(operation, at)) > RATE_LIMITS[operation].maxRequests

\* `timestamps.length >= limit.maxRequests`
OverLimit(operation, at) ==
    Len(Retained(operation, at)) >= RATE_LIMITS[operation].maxRequests

\* (variant: Math.floor in place of Math.ceil)
CeilSeconds_floor(ms) == ms \div 1000

\* Math.ceil(ms / 1000) on an integer number of milliseconds
CeilSeconds(ms) == -((-ms) \div 1000)

\* `limit.windowMs - (now - oldestValid)` with oldestValid = timestamps[0]
RetryAfterMs(operation, at) ==
    RATE_LIMITS[operation].windowMs - (at - Retained(operation, at)[1])

\* (variant: a key without an entry is refused, `if (!limit) throw`)
Rejects_unknownKeys(operation, at) ==
    ~HasLimit(operation) \/ OverLimit(operation, at)

\* does checkRateLimit(operation) throw at clock value `at`?
Rejects(operation, at) == HasLimit(operation) /\ OverLimit(operation, at)

\* (variant: a rejected call is recorded too)
WindowsAfter_recordingAll(operation, at) ==
    IF ~HasLimit(operation)
    THEN windows
    ELSE [windows EXCEPT ![operation] = Append(Retained(operation, at), at)]

\* the Map after checkRateLimit(operation): untouched on the pass-through and
\* on the throw, otherwise the filtered array with `now` pushed
WindowsAfter(operation, at) ==
    IF ~HasLimit(operation) \/ OverLimit(operation, at)
    THEN windows
    ELSE [windows EXCEPT ![operation] = Append(Retained(operation, at), at)]

\* the record of one checkRateLimit call
CheckRecord(operation, at) ==
    IF ~HasLimit(operation)
    THEN [op |-> operation, at |-> at, outcome |-> "pass",
          retryAfterS |-> 0, retained |-> <<>>]
    ELSE IF OverLimit(operation, at)
    THEN [op |-> operation, at |-> at, outcome |-> "rejected",
          retryAfterS |-> CeilSeconds(RetryAfterMs(operation, at)),
          retained |-> Retained(operation, at)]
    ELSE [op |-> operation, at |-> at, outcome |-> "admitted",
          retryAfterS |-> 0, retained |-> Retained(operation, at)]

AdmittedAfter(operation, at) ==
    IF Rejects(operation, at)
    THEN admitted
    ELSE [admitted EXCEPT ![operation] = Append(@, at)]

\* checkRateLimit(operation), called directly
checkRateLimit(operation) ==
    /\ nCalls < MaxCalls
    /\ windows' = WindowsAfter(operation, now)
    /\ admitted' = AdmittedAfter(operation, now)
    /\ rl' = CheckRecord(operation, now)
    /\ nCalls' = nCalls + 1
    /\ UNCHANGED <<now, nTicks>>
    /\ UNCHANGED apiVars

\* the clock advances by d milliseconds
Tick(d) ==
    /\ nTicks < MaxTicks
    /\ now' = now + d
    /\ nTicks' = nTicks + 1
    /\ UNCHANGED rlVars
    /\ UNCHANGED apiVars

(***************************************************************************)
(* security/validator.ts                                                   *)
(* A JavaScript value is a record tagged with its type: [t |-> "undefined"],*)
(* [t |-> "null"], [t |-> "string", v |-> <<codes>>], [t |-> "number",     *)
(* v |-> n], [t |-> "nan"], [t |-> "array", v |-> <<values>>].  A validator *)
(* yields [ok |-> TRUE, v |-> value] or [ok |-> FALSE, message |-> parts]. *)
(***************************************************************************)
Undefined == [t |-> "undefined"]
Null == [t |-> "null"]
NaN == [t |-> "nan"]
StringOf(cs) == [t |-> "string", v |-> cs]
NumberOf(n) == [t |-> "number", v |-> n]
ArrayOf(vs) == [t |-> "array", v |-> vs]
\* a plain object; printable: String(x) yields "[object Object]", which it
\* does unless an own property hides toString with a value that cannot be
\* called (as in {"toString": 1})
ObjectOf(printable) == [t |-> "object", printable |-> printable]

Returns(x) == [ok |-> TRUE, v |-> x]
Throws(parts) == [ok |-> FALSE, message |-> parts]

MAX_CONTENT_LENGTH == 50000
MAX_QUERY_LENGTH == 2000
MAX_TAG_LENGTH == 100
MAX_TAGS == 20

\* the class [\x00-\x08\x0B\x0C\x0E-\x1F\x7F]
IsControl(c) == c \in (0..8) \cup {11, 12} \cup (14..31) \cup {127}

\* the white space and line terminators String.prototype.trim removes
IsTrimmed(c) == c \in {9, 10, 11, 12, 13, 32, 160}

RECURSIVE TrimStart(_)
TrimStart(cs) ==
    IF cs # <<>> /\ IsTrimmed(Head(cs)) THEN TrimStart(Tail(cs)) ELSE cs

RECURSIVE TrimEnd(_)
TrimEnd(cs) ==
    IF cs # <<>> /\ IsTrimmed(cs[Len(cs)])
    THEN TrimEnd(SubSeq(cs, 1, Len(cs) - 1))
    ELSE cs

\* String.prototype.trim
Trim(cs) == TrimEnd(TrimStart(cs))

\* s.replace(/[\x00-\x08\x0B\x0C\x0E-\x1F\x7F]/g, '').trim()
sanitizeString(cs) == Trim(SelectSeq(cs, LAMBDA c : ~IsControl(c)))

\* (variant: the length of the raw string is compared with the maximum)
validateContent_rawLength(content) ==
    IF content.t # "string" \/ Len(Trim(content.v)) = 0
    THEN Throws(<<"content must be a non-empty string">>)
    ELSE IF Len(content.v) > MAX_CONTENT_LENGTH
    THEN Throws(<<"content exceeds maximum length of ",
                  ToString(MAX_CONTENT_LENGTH), " characters">>)
    ELSE Returns(StringOf(sanitizeString(content.v)))

validateContent(content) ==
    IF content.t # "string" \/ Len(Trim(content.v)) = 0
    THEN Throws(<<"content must be a non-empty string">>)
    ELSE LET cleaned == sanitizeString(content.v)
         IN  IF Len(cleaned) > MAX_CONTENT_LENGTH
             THEN Throws(<<"content exceeds maximum length of ",
                           ToString(MAX_CONTENT_LENGTH), " characters">>)
             ELSE Returns(StringOf(cleaned))

validateQuery(query) ==
    IF query.t # "string" \/ Len(Trim(query.v)) = 0
    THEN Throws(<<"query must be a non-empty string">>)
    ELSE LET cleaned == sanitizeString(query.v)
         IN  IF Len(cleaned) > MAX_QUERY_LENGTH
             THEN Throws(<<"query exceeds maximum length of ",
                           ToString(MAX_QUERY_LENGTH), " characters">>)
             ELSE Returns(StringOf(cleaned))

\* the class [a-zA-Z0-9_-]
IsIdChar(c) == c \in (97..122) \cup (65..90) \cup (48..57) \cup {95, 45}

\* (variant: the pattern without its anchors, /[a-zA-Z0-9_-]{1,128}/)
ID_PATTERN_unanchored(cs) == \E i \in 1..Len(cs) : IsIdChar(cs[i])

\* ID_PATTERN = /^[a-zA-Z0-9_-]{1,128}$/
ID_PATTERN(cs) ==
    /\ Len(cs) >= 1
    /\ Len(cs) <= 128
    /\ \A i \in 1..Len(cs) : IsIdChar(cs[i])

validateId(id) ==
    IF id.t # "string" \/ ~ID_PATTERN(id.v)
    THEN Throws(<<"Invalid ID format. Must be 1-128 alphanumeric characters, hyphens, or underscores.">>)
    ELSE Returns(id)

\* "SESSION", "SEMANTIC", "CORE", "META" as character codes
VALID_LAYERS ==
    << <<83, 69, 83, 83, 73, 79, 78>>, <<83, 69, 77, 65, 78, 84, 73, 67>>,
       <<67, 79, 82, 69>>, <<77, 69, 84, 65>> >>

\* "LOW", "MEDIUM", "HIGH", "CRITICAL" as character codes
VALID_IMPORTANCE ==
    << <<76, 79, 87>>, <<77, 69, 68, 73, 85, 77>>, <<72, 73, 71, 72>>,
       <<67, 82, 73, 84, 73, 67, 65, 76>> >>

\* Array.prototype.includes
Includes(arr, x) == \E i \in 1..Len(arr) : arr[i] = x

\* (variant: the comparison is made without converting the case)
ToUpperCase_asIs(cs) == cs

\* String.prototype.toUpperCase: the ASCII letters, and the two letters
\* outside ASCII whose upper case is an ASCII letter (dotless i, long s)
ToUpperCase(cs) ==
    [i \in 1..Len(cs) |->
        IF cs[i] \in 97..122 THEN cs[i] - 32
        ELSE IF cs[i] = 305 THEN 73
        ELSE IF cs[i] = 383 THEN 83
        ELSE cs[i]]

validateLayer(layer) ==
    IF layer.t \in {"undefined", "null"} THEN Returns(Undefined)
    ELSE IF layer.t # "string" THEN Throws(<<"layer must be a string">>)
    ELSE LET upper == ToUpperCase(layer.v)
         IN  IF ~Includes(VALID_LAYERS, upper)
             THEN Throws(<<"Invalid layer. Must be one of: ",
                           "SESSION, SEMANTIC, CORE, META">>)
             ELSE Returns(StringOf(upper))

validateImportance(importance) ==
    IF importance.t \in {"undefined", "null"} THEN Returns(Undefined)
    ELSE IF importance.t # "string"
    THEN Throws(<<"importance must be a string">>)
    ELSE LET upper == ToUpperCase(importance.v)
         IN  IF ~Includes(VALID_IMPORTANCE, upper)
             THEN Throws(<<"Invalid importance. Must be one of: ",
                           "LOW, MEDIUM, HIGH, CRITICAL">>)
             ELSE Returns(StringOf(upper))

\* the callback of layers.map: validateLayer, then `if (!v) throw`
LayerElement(l) ==
    LET r == validateLayer(l)
    IN  IF ~r.ok THEN r
        ELSE IF r.v = Undefined THEN Throws(<<"Invalid layer in array">>)
        ELSE r

\* the callback of tags.map
TagElement(tag) ==
    IF tag.t # "string" THEN Throws(<<"Each tag must be a string">>)
    ELSE LET cleaned == sanitizeString(tag.v)
         IN  IF Len(cleaned) > MAX_TAG_LENGTH
             THEN Throws(<<"Tag exceeds ", ToString(MAX_TAG_LENGTH),
                           " characters">>)
             ELSE IF Len(cleaned) = 0 THEN Throws(<<"Empty tags not allowed">>)
             ELSE Returns(StringOf(cleaned))

\* Array.prototype.map with a callback that may throw, given the callback's
\* outcome per element: the first throw, in element order, ends the map
\* (variant: an element that fails is left out, the others are returned)
MapOrThrow_skipping(rs) ==
    Returns(ArrayOf(
        LET kept == SelectSeq(rs, LAMBDA r : r.ok)
        IN  [i \in 1..Len(kept) |-> kept[i].v]))

MapOrThrow(rs) ==
    LET bad == {i \in 1..Len(rs) : ~rs[i].ok}
    IN  IF bad # {}
        THEN rs[CHOOSE i \in bad : \A j \in bad : i <= j]
        ELSE Returns(ArrayOf([i \in 1..Len(rs) |-> rs[i].v]))

validateLayers(layers) ==
    IF layers.t \in {"undefined", "null"} THEN Returns(Undefined)
    ELSE IF layers.t # "array" THEN Throws(<<"layers must be an array">>)
    ELSE MapOrThrow([i \in 1..Len(layers.v) |-> LayerElement(layers.v[i])])

validateTags(tags) ==
    IF tags.t \in {"undefined", "null"} THEN Returns(Undefined)
    ELSE IF tags.t # "array" THEN Throws(<<"tags must be an array">>)
    ELSE IF Len(tags.v) > MAX_TAGS
    THEN Throws(<<"Maximum ", ToString(MAX_TAGS), " tags allowed">>)
    ELSE MapOrThrow([i \in 1..Len(tags.v) |-> TagElement(tags.v[i])])

\* parseInt(String(x), 10) on a string: leading white space, an optional
\* sign, then decimal digits up to the first other character; NaN without
\* a digit
RECURSIVE Digits(_, _)
Digits(cs, acc) ==
    IF cs # <<>> /\ Head(cs) \in 48..57
    THEN Digits(Tail(cs), acc * 10 + (Head(cs) - 48))
    ELSE acc

ParseInt(cs) ==
    LET body == TrimStart(cs)
        signed == body # <<>> /\ Head(body) \in {43, 45}
        rest == IF signed THEN Tail(body) ELSE body
    IN  IF rest = <<>> \/ Head(rest) \notin 48..57 THEN NaN
        ELSE IF signed /\ Head(body) = 45 THEN NumberOf(-Digits(rest, 0))
        ELSE NumberOf(Digits(rest, 0))

\* Number.prototype.toString of an integer
RECURSIVE DigitsOf(_)
DigitsOf(n) ==
    IF n < 10 THEN <<48 + n>> ELSE DigitsOf(n \div 10) \o <<48 + (n % 10)>>

NumberToString(n) == IF n < 0 THEN <<45>> \o DigitsOf(-n) ELSE DigitsOf(n)

\* String(x) throws a TypeError ('Cannot convert object to primitive value'):
\* neither toString nor valueOf of the object yields a primitive
RECURSIVE StringThrows(_)
StringThrows(x) ==
    CASE x.t = "object" -> ~x.printable
      [] x.t = "array" -> \E i \in 1..Len(x.v) : StringThrows(x.v[i])
      [] OTHER -> FALSE

\* String(x): "undefined", "null", "NaN", "true" / "false", a number's
\* digits, "[object Object]", and for an array its elements joined by ','
\* (null and undefined elements as the empty string)
RECURSIVE String(_)
String(x) ==
    CASE x.t = "string" -> x.v
      [] x.t = "number" -> NumberToString(x.v)
      [] x.t = "nan" -> <<78, 97, 78>>
      [] x.t = "undefined" -> <<117, 110, 100, 101, 102, 105, 110, 101, 100>>
      [] x.t = "null" -> <<110, 117, 108, 108>>
      [] x.t = "boolean" ->
            IF x.v THEN <<116, 114, 117, 101>> ELSE <<102, 97, 108, 115, 101>>
      [] x.t = "object" -> <<91, 111, 98, 106, 101, 99, 116, 32, 79, 98, 106, 101, 99, 116, 93>>
      [] x.t = "array" ->
            IF x.v = <<>> THEN <<>>
            ELSE LET first == IF Head(x.v).t \in {"undefined", "null"}
                              THEN <<>> ELSE String(Head(x.v))
                 IN  IF Len(x.v) = 1 THEN first
                     ELSE first \o <<44>> \o String([t |-> "array",
                                                      v |-> Tail(x.v)])

\* `typeof x === 'number' ? x : parseInt(String(x), 10)`, where String(x)
\* does not throw
ToInt(x) ==
    IF x.t \in {"number", "nan"} THEN x ELSE ParseInt(String(x))

\* the TypeError String(x) throws
ToPrimitiveError == Throws(<<"Cannot convert object to primitive value">>)

\* Math.min
MathMin(a, b) == IF a < b THEN a ELSE b

validateLimit(limit, max, defaultVal) ==
    IF limit.t \in {"undefined", "null"} THEN Returns(NumberOf(defaultVal))
    ELSE IF limit.t \notin {"number", "nan"} /\ StringThrows(limit)
    THEN ToPrimitiveError
    ELSE LET n == ToInt(limit)
         IN  IF n.t = "nan" \/ n.v < 1 THEN Returns(NumberOf(defaultVal))
             ELSE Returns(NumberOf(MathMin(n.v, max)))

validateMaxTokens(maxTokens, defaultVal) ==
    IF maxTokens.t \in {"undefined", "null"}
    THEN Returns(NumberOf(defaultVal))
    ELSE IF maxTokens.t \notin {"number", "nan"} /\ StringThrows(maxTokens)
    THEN ToPrimitiveError
    ELSE LET n == ToInt(maxTokens)
         IN  IF n.t = "nan" \/ n.v < 100 THEN Returns(NumberOf(defaultVal))
             ELSE Returns(NumberOf(MathMin(n.v, 32000)))

(***************************************************************************)
(* config.ts                                                               *)
(* An environment variable is Unset or Env(v); v is a string, except that  *)
(* the text of a URL is kept as its parts (scheme, host as written between *)
(* "//" and the port or path, trailing slash) and a number's text as its   *)
(* character codes.                                                        *)
(***************************************************************************)
Unset == [set |-> FALSE]
Env(v) == [set |-> TRUE, v |-> v]

UrlText(scheme, host, slash) == [scheme |-> scheme, host |-> host, slash |-> slash]

\* the empty string as the value of a URL variable
EmptyUrl == UrlText("", "", FALSE)

\* 'https://api.openengram.ai'
DEFAULT_BASE_URL == UrlText("https", "api.openengram.ai", FALSE)

\* `process.env.X || fallback` for a string variable
OrElse(e, fallback) == IF e.set /\ e.v # "" THEN e.v ELSE fallback

\* `process.env.ENGRAM_API_URL || process.env.ENGRAM_BASE_URL || default`
\* followed by `.replace(/\/$/, '')`
BaseUrlOf(env) ==
    LET text == IF env.ENGRAM_API_URL.set /\ env.ENGRAM_API_URL.v # EmptyUrl
                THEN env.ENGRAM_API_URL.v
                ELSE IF env.ENGRAM_BASE_URL.set
                        /\ env.ENGRAM_BASE_URL.v # EmptyUrl
                THEN env.ENGRAM_BASE_URL.v
                ELSE DEFAULT_BASE_URL
    IN  [text EXCEPT !.slash = FALSE]

\* new URL(baseUrl).protocol
Protocol(u) == u.scheme \o ":"

\* new URL(baseUrl).hostname: the host in lower case, an IPv6 address
\* within its brackets
Hostname(u) ==
    CASE u.host = "LOCALHOST" -> "localhost"
      [] u.host = "[::1]" -> "[::1]"
      [] OTHER -> u.host

IsLocalhost(u) == Hostname(u) \in {"localhost", "127.0.0.1", "::1"}

\* `!process.env.ENGRAM_ALLOW_HTTP`
NoAllowHttp(env) == ~(env.ENGRAM_ALLOW_HTTP.set /\ env.ENGRAM_ALLOW_HTTP.v # "")

\* process.exit(code)
Exit(code) == [exited |-> TRUE, code |-> code]

\* parseInt(process.env.X || fallback, 10), NaN written as -1
IntOr(e, fallback) ==
    LET n == ParseInt(IF e.set /\ e.v # <<>> THEN e.v ELSE fallback)
    IN  IF n.t = "nan" THEN -1 ELSE n.v

loadConfig(env) ==
    LET apiKey == OrElse(env.ENGRAM_API_KEY, "")
        userId == OrElse(env.ENGRAM_USER_ID, "Beaux")
        baseUrl == BaseUrlOf(env)
        logLevel == OrElse(env.ENGRAM_LOG_LEVEL, "warn")
    IN  IF ~IsLocalhost(baseUrl) /\ Protocol(baseUrl) # "https:"
             /\ NoAllowHttp(env)
        THEN Exit(1)
        ELSE IF logLevel \notin {"debug", "info", "warn", "error"}
        THEN Exit(1)
        ELSE [exited |-> FALSE,
              config |->
                 [apiKey |-> apiKey, userId |-> userId, baseUrl |-> baseUrl,
                  timeoutMs |-> IntOr(env.ENGRAM_TIMEOUT_MS,
                                      <<49, 48, 48, 48, 48>>),
                  logLevel |-> logLevel,
                  maxRetries |-> IntOr(env.ENGRAM_MAX_RETRIES, <<50>>)]]

(***************************************************************************)
(* engram-api.ts: errors, and the branches of EngramAPI.request            *)
(* A message built by a template literal is the tuple of its pieces.       *)
(***************************************************************************)
\* class EngramError extends Error
EngramError(message, statusCode, offline) ==
    [class |-> "EngramError", message |-> message, statusCode |-> statusCode,
     offline |-> offline]

\* any other Error: Error, TypeError, SyntaxError, or fetch's AbortError
OtherError(name, message) ==
    [class |-> name, message |-> message, statusCode |-> 0, offline |-> FALSE]

NoError == OtherError("none", <<>>)

\* JavaScript truthiness of a `string | null`: a non-empty string
Truthy(x) == x.t = "string" /\ x.v # <<>>

\* new Date().toISOString(): the clock value written out as calendar fields
\* (minutes since the epoch, seconds, milliseconds)
toISOString(ms) ==
    [t |-> "string", v |-> <<ms \div 60000, (ms \div 1000) % 60, ms % 1000>>]

\* resp.ok
RespOk(status) == status >= 200 /\ status <= 299

\* (variant: only 401 and 403 are singled out)
SpecificError_authOnly(status, retryAfter) ==
    IF status = 401 \/ status = 403
    THEN EngramError(<<"API key invalid or expired">>, status, FALSE)
    ELSE OtherError("none", <<>>)

\* the status-specific throws of request(): 401/403, 404, 429
SpecificError(status, retryAfter) ==
    IF status = 401 \/ status = 403
    THEN EngramError(<<"API key invalid or expired">>, status, FALSE)
    ELSE IF status = 404
    THEN EngramError(<<"Resource not found">>, 404, FALSE)
    ELSE IF status = 429
    THEN EngramError(
            <<"Rate limited by Engram backend">> \o
            (IF Truthy(retryAfter)
             THEN <<". Retry after ", retryAfter.v, "s">> ELSE <<>>),
            429, FALSE)
    ELSE NoError

\* (variant: the last retry of the budget is never used)
RetriesServerError_strict(status, retries) == status >= 500 /\ retries > 1

\* `resp.status >= 500 && retries > 0`
RetriesServerError(status, retries) == status >= 500 /\ retries > 0

\* the throw that ends the try block for every other status
StatusError(status) ==
    EngramError(<<"Engram API error: ", ToString(status)>>, status, FALSE)

\* (variant: a timeout is retried whatever budget is left)
RetriesCaught_unbounded(err, retries) == err.class = "AbortError"

\* the catch block resends: an AbortError with budget left
RetriesCaught(err, retries) ==
    err.class # "EngramError" /\ err.class = "AbortError" /\ retries > 0

\* (variant: an AbortError is not told apart from a network error)
Caught_noTimeout(err) ==
    IF err.class = "EngramError" THEN err
    ELSE EngramError(<<"Cannot reach Engram backend: ">> \o err.message,
                     0, TRUE)

\* the catch block throws: an EngramError as it is, an AbortError without
\* budget as 'Request timed out', anything else as 'Cannot reach'
Caught(err) ==
    IF err.class = "EngramError" THEN err
    ELSE IF err.class = "AbortError"
    THEN EngramError(<<"Request timed out">>, 0, TRUE)
    ELSE EngramError(<<"Cannot reach Engram backend: ">> \o err.message,
                     0, TRUE)

\* what fetch or resp.text() rejects with
AbortError == OtherError("AbortError", <<"This operation was aborted">>)
FetchFailed == OtherError("TypeError", <<"fetch failed">>)
BodyFailed == OtherError("TypeError", <<"terminated">>)
JsonSyntaxError == OtherError("SyntaxError", <<"Unexpected token">>)

(***************************************************************************)
(* index.ts: the tool, resource and prompt handlers                        *)
(***************************************************************************)
\* function error(msg) / function success(data): the ToolResult
ErrorResult(msg) == [isError |-> TRUE, text |-> msg]
SuccessResult(msg) == [isError |-> FALSE, text |-> msg]
NoResult == [isError |-> FALSE, text |-> <<>>]

\* err.message.startsWith('Rate limit')
StartsWithRateLimit(message) ==
    /\ message # <<>>
    /\ message[1] \in {"Rate limit exceeded for ",
                       "Rate limited by Engram backend"}

\* (variant: the offline message never cites the last healthy time)
handleError_noLastSeen(err, operation, lastSeen) ==
    IF err.class = "EngramError" /\ err.offline
    THEN ErrorResult(<<"Memory ", operation,
                       " unavailable - cannot reach Engram backend.">>)
    ELSE IF err.class = "EngramError" THEN ErrorResult(err.message)
    ELSE IF StartsWithRateLimit(err.message) THEN ErrorResult(err.message)
    ELSE ErrorResult(<<"Validation error: ">> \o err.message)

\* function handleError(err, operation), lastSeen being api.getLastHealthy()
handleError(err, operation, lastSeen) ==
    IF err.class = "EngramError"
    THEN IF err.offline
         THEN ErrorResult(
                <<"Memory ", operation,
                  " unavailable - cannot reach Engram backend.">> \o
                (IF Truthy(lastSeen)
                 THEN <<" Last seen: ", lastSeen.v>> ELSE <<>>))
         ELSE ErrorResult(err.message)
    ELSE IF err.class # "thrown" /\ StartsWithRateLimit(err.message)
    THEN ErrorResult(err.message)
    ELSE IF err.class # "thrown"
    THEN ErrorResult(<<"Validation error: ">> \o err.message)
    ELSE ErrorResult(<<"Unexpected error during ", operation>>)

\* the Error checkRateLimit throws
RateLimitError(operation, at) ==
    OtherError("Error",
        <<"Rate limit exceeded for ", operation, ". Max ",
          ToString(RATE_LIMITS[operation].maxRequests), " requests per ",
          ToString(RATE_LIMITS[operation].windowMs \div 1000),
          "s. Retry after ",
          ToString(CeilSeconds(RetryAfterMs(operation, at))), "s.">>)

\* every registered handler: what it is, the key it passes to
\* checkRateLimit ("none": it makes no such call), the backend operation it
\* calls, and the operation name it hands to handleError
HANDLERS ==
    ("engram_remember" :>
        [kind |-> "tool", key |-> "remember", api |-> "remember",
         operation |-> "storage"]) @@
    ("engram_recall" :>
        [kind |-> "tool", key |-> "recall", api |-> "recall",
         operation |-> "recall"]) @@
    ("engram_search" :>
        [kind |-> "tool", key |-> "search", api |-> "search",
         operation |-> "search"]) @@
    ("engram_forget" :>
        [kind |-> "tool", key |-> "forget", api |-> "forget",
         operation |-> "deletion"]) @@
    ("engram_context" :>
        [kind |-> "tool", key |-> "context", api |-> "context",
         operation |-> "context generation"]) @@
    ("engram_observe" :>
        [kind |-> "tool", key |-> "observe", api |-> "observe",
         operation |-> "observation"]) @@
    ("memory-stats" :>
        [kind |-> "resource", key |-> "none", api |-> "stats",
         operation |-> "none"]) @@
    ("memory-context" :>
        [kind |-> "resource", key |-> "none", api |-> "context",
         operation |-> "none"]) @@
    ("memory-aware-chat" :>
        [kind |-> "prompt", key |-> "none", api |-> "context",
         operation |-> "none"])

\* the first throw of a sequence of validator calls, or the last result
RECURSIVE FirstThrow(_)
FirstThrow(rs) ==
    IF Len(rs) = 1 \/ ~Head(rs).ok THEN Head(rs) ELSE FirstThrow(Tail(rs))

\* the validator calls a tool handler makes between checkRateLimit and the
\* api call, in the order of the code
Validation(entry, args) ==
    CASE entry = "engram_remember" ->
            FirstThrow(<<validateContent(args.content),
                         validateLayer(args.layer), validateTags(args.tags)>>)
      [] entry = "engram_recall" ->
            FirstThrow(<<validateQuery(args.query),
                         validateLayers(args.layers),
                         validateLimit(args.limit, 50, 10),
                         validateTags(args.tags)>>)
      [] entry = "engram_search" -> validateQuery(args.query)
      [] entry = "engram_forget" -> validateId(args.memoryId)
      [] entry = "engram_context" ->
            validateMaxTokens(args.maxTokens, 4000)
      [] entry = "engram_observe" -> validateContent(args.content)
      [] OTHER -> Returns(Undefined)

\* JavaScript truthiness, as `x && {...}` tests it
ToBoolean(x) ==
    CASE x.t \in {"undefined", "null", "nan"} -> FALSE
      [] x.t = "string" -> x.v # <<>>
      [] x.t = "number" -> x.v # 0
      [] x.t = "boolean" -> x.v
      [] OTHER -> TRUE

\* `...(x && { k: x })`: the property k, Undefined when it is left out
Spread(x) == IF ToBoolean(x) THEN x ELSE Undefined

\* the object a handler passes to the api method (for engram_forget, the id
\* put into the path), once its validators have returned; a property that
\* is left out is Undefined
RequestBody(entry, args) ==
    CASE entry = "engram_remember" ->
            [raw |-> validateContent(args.content).v,
             layer |-> Spread(validateLayer(args.layer).v),
             importance |-> args.importance,
             tags |-> Spread(validateTags(args.tags).v),
             source |-> Spread(args.source)]
      [] entry = "engram_recall" ->
            [query |-> validateQuery(args.query).v,
             layers |-> Spread(validateLayers(args.layers).v),
             limit |-> validateLimit(args.limit, 50, 10).v,
             tags |-> Spread(validateTags(args.tags).v)]
      [] entry = "engram_search" ->
            [query |-> validateQuery(args.query).v,
             entityType |-> Spread(args.entityType)]
      [] entry = "engram_forget" -> [id |-> validateId(args.memoryId).v]
      [] entry = "engram_context" ->
            [maxTokens |-> validateMaxTokens(args.maxTokens, 4000).v,
             focus |-> Spread(args.focus),
             projectId |-> Spread(args.projectId)]
      [] entry = "engram_observe" ->
            [content |-> validateContent(args.content).v,
             source |-> Spread(args.source)]
      [] entry = "memory-context" -> [maxTokens |-> NumberOf(4000)]
      [] entry = "memory-aware-chat" ->
            [maxTokens |-> NumberOf(4000), focus |-> Spread(args.topic)]
      [] OTHER -> [none |-> Undefined]

\* the handlers that read a property of the decoded result, which throws a
\* TypeError when the response body was empty (request returned undefined)
ReadsResult(entry) ==
    entry \in {"engram_remember", "engram_context", "engram_observe",
               "memory-context", "memory-aware-chat"}

ResultTypeError ==
    OtherError("TypeError", <<"Cannot read properties of undefined">>)

\* the catch block of the handler: handleError for a tool; the two resource
\* handlers and the prompt handler have their own
Report(entry, err, lastSeen) ==
    CASE HANDLERS[entry].kind = "tool" ->
            handleError(err, HANDLERS[entry].operation, lastSeen)
      [] entry = "memory-stats" ->
            IF err.class = "EngramError" /\ err.offline
            THEN SuccessResult(<<"{\"error\": \"Engram backend offline\"}">>)
            ELSE SuccessResult(<<"{\"error\": \"">> \o err.message \o <<"\"}">>)
      [] entry = "memory-context" ->
            IF err.class = "EngramError" /\ err.offline
            THEN SuccessResult(<<"Engram backend offline - context unavailable">>)
            ELSE SuccessResult(<<"Error: ">> \o err.message)
      [] OTHER ->
            SuccessResult(<<"Note: Memory context could not be loaded (Engram may be offline).">>)

(***************************************************************************)
(* One handler invocation, from the call to the ToolResult.  Between two   *)
(* awaits a handler runs without interruption, so each action below is the *)
(* code from one await to the next.                                        *)
(*   pc         "idle", "fetch" (await fetch), "body" (await resp.text()   *)
(*              of a 2xx response), "errBody" (await resp.text() of an     *)
(*              error response), "sleep" (the 1 s wait), "done"            *)
(*   retries    the `retries` parameter of the running request() call      *)
(*   timerAt    when the running request() call set its abort timer        *)
(*   wakeAt     when the 1 s wait ends                                     *)
(*   status     status of the response received by the running call        *)
(*   err        what request() threw, NoError if nothing                   *)
(*   returned   request() returned a value                                 *)
(*   result     what the handler returned to the caller                    *)
(* and, as history: args (the arguments of the call), check (what         *)
(* checkRateLimit did for it), attempts (fetch calls made), transients     *)
(* (attempts that ended in a 5xx response or an abort), serverErrors (5xx  *)
(* responses), okAborts (aborts that came after a 2xx response), last (how *)
(* the latest attempt ended), retryAfter (the retry-after header of the    *)
(* response), okAtEnd (lastOkAt when the invocation ended).                *)
(***************************************************************************)
Procs == {"p1", "p2"}

RETRY_DELAY_MS == 1000
DEFAULT_MAX_RETRIES == 2

Idle ==
    [pc |-> "idle", entry |-> "none", retries |-> 0, timerAt |-> 0,
     wakeAt |-> 0, status |-> 0, err |-> NoError, returned |-> FALSE,
     result |-> NoResult, args |-> [none |-> Undefined], check |-> "none",
     attempts |-> 0, transients |-> 0, serverErrors |-> 0, okAborts |-> 0,
     last |-> "none", retryAfter |-> Null, okAtEnd |-> -1]

\* history: an invocation that ends records the latest 2xx response so far
Stamp(o, okAt) == IF o.pc = "done" THEN [o EXCEPT !.okAtEnd = okAt] ELSE o

\* a call of request(method, path, body, r) up to `await fetch(...)`
StartAttempt(o, r, at) ==
    [o EXCEPT !.pc = "fetch", !.retries = r, !.timerAt = at, !.wakeAt = 0,
              !.status = 0, !.retryAfter = Null, !.attempts = @ + 1]

\* request() throws err; the handler's catch block turns it into the result
Fail(o, err, lastSeen) ==
    [o EXCEPT !.pc = "done", !.err = err,
              !.result = Report(o.entry, err, lastSeen)]

\* an error thrown in the handler itself, outside request()
FailLocally(o, err, lastSeen) ==
    [o EXCEPT !.pc = "done", !.result = Report(o.entry, err, lastSeen)]

\* (variant: a validator's throw does not stop the handler)
HandlerStart_unvalidated(entry, args, at, maxRetries, lastSeen) ==
    LET o == [Idle EXCEPT !.entry = entry, !.args = args]
        h == HANDLERS[entry]
    IN  IF h.kind = "tool" /\ Rejects(h.key, at)
        THEN FailLocally(o, RateLimitError(h.key, at), lastSeen)
        ELSE StartAttempt(o, maxRetries, at)

\* the handler up to its first await: a tool calls checkRateLimit, then its
\* validators, then the api method; a resource or the prompt calls the api
\* method at once
HandlerStart(entry, args, at, maxRetries, lastSeen) ==
    LET o == [Idle EXCEPT !.entry = entry, !.args = args]
        h == HANDLERS[entry]
        v == Validation(entry, args)
    IN  IF h.kind = "tool" /\ Rejects(h.key, at)
        THEN FailLocally(o, RateLimitError(h.key, at), lastSeen)
        ELSE IF h.kind = "tool" /\ ~v.ok
        THEN FailLocally(o, OtherError("Error", v.message), lastSeen)
        ELSE StartAttempt(o, maxRetries, at)

Invoke(p, entry, args) ==
    /\ ops[p].pc = "idle"
    /\ ops' = [ops EXCEPT ![p] =
                  Stamp([HandlerStart(entry, args, now, config.maxRetries,
                                      lastHealthy)
                            EXCEPT !.check =
                                IF HANDLERS[entry].kind = "tool"
                                THEN CheckRecord(HANDLERS[entry].key,
                                                 now).outcome
                                ELSE "none"],
                        lastOkAt)]
    /\ IF HANDLERS[entry].kind = "tool"
       THEN /\ windows' = WindowsAfter(HANDLERS[entry].key, now)
            /\ admitted' = AdmittedAfter(HANDLERS[entry].key, now)
            /\ rl' = CheckRecord(HANDLERS[entry].key, now)
       ELSE UNCHANGED <<windows, admitted, rl>>
    /\ UNCHANGED <<now, nCalls, nTicks, config, lastHealthy, lastOkAt,
                   val>>

\* fetch resolves with a response: the try block up to its next await or
\* its throw
OnResponse(o, status, retryAfter, at, lastSeen) ==
    LET r == [o EXCEPT !.status = status, !.retryAfter = retryAfter]
    IN  IF RespOk(status) THEN [r EXCEPT !.pc = "body"]
        ELSE IF SpecificError(status, retryAfter).class # "none"
        THEN Fail([r EXCEPT !.last = "status"],
                  Caught(SpecificError(status, retryAfter)), lastSeen)
        ELSE IF RetriesServerError(status, o.retries)
        THEN [r EXCEPT !.pc = "sleep", !.wakeAt = at + RETRY_DELAY_MS,
                       !.transients = @ + 1, !.serverErrors = @ + 1,
                       !.last = "5xx"]
        ELSE IF status >= 500
        THEN [r EXCEPT !.pc = "errBody", !.transients = @ + 1,
                       !.serverErrors = @ + 1, !.last = "5xx"]
        ELSE [r EXCEPT !.pc = "errBody", !.last = "status"]

\* (variant: only the first success is recorded)
HealthAfter_firstOnly(status, at, health) ==
    IF RespOk(status) /\ health.t = "null" THEN toISOString(at) ELSE health

\* `if (resp.ok) this.lastHealthy = new Date().toISOString()`
HealthAfter(status, at, health) ==
    IF RespOk(status) THEN toISOString(at) ELSE health

Respond(p, status, retryAfter) ==
    /\ ops[p].pc = "fetch"
    /\ ops' = [ops EXCEPT ![p] =
                  Stamp(OnResponse(ops[p], status, retryAfter, now,
                                   lastHealthy), lastOkAt)]
    /\ lastHealthy' = HealthAfter(status, now, lastHealthy)
    /\ lastOkAt' = IF RespOk(status) THEN now ELSE lastOkAt
    /\ UNCHANGED <<now, nTicks, config, val>>
    /\ UNCHANGED rlVars

\* `const errBody = await resp.text().catch(() => '')` settles, and the
\* 'Engram API error' is thrown
ErrBody(p) ==
    /\ ops[p].pc = "errBody"
    /\ ops' = [ops EXCEPT ![p] =
                  Stamp(Fail(ops[p], Caught(StatusError(ops[p].status)),
                             lastHealthy), lastOkAt)]
    /\ UNCHANGED <<now, nTicks, config, lastHealthy, lastOkAt, val>>
    /\ UNCHANGED rlVars

\* `await resp.text()` of a 2xx response settles: body is "json" (text that
\* JSON.parse accepts), "empty" (request returns undefined), "garbage"
\* (JSON.parse throws) or "reset" (the connection broke, text() rejects)
OnBody(o, body, lastSeen) ==
    CASE body = "json" ->
            [o EXCEPT !.pc = "done", !.returned = TRUE, !.last = "ok",
                      !.result = SuccessResult(<<"result">>)]
      [] body = "empty" ->
            IF ReadsResult(o.entry)
            THEN FailLocally([o EXCEPT !.returned = TRUE, !.last = "ok"],
                             ResultTypeError, lastSeen)
            ELSE [o EXCEPT !.pc = "done", !.returned = TRUE, !.last = "ok",
                           !.result = SuccessResult(<<"empty">>)]
      [] body = "garbage" ->
            Fail([o EXCEPT !.last = "badbody"], Caught(JsonSyntaxError),
                 lastSeen)
      [] OTHER ->
            Fail([o EXCEPT !.last = "reset"], Caught(BodyFailed), lastSeen)

ReadBody(p, body) ==
    /\ ops[p].pc = "body"
    /\ ops' = [ops EXCEPT ![p] =
                  Stamp(OnBody(ops[p], body, lastHealthy), lastOkAt)]
    /\ UNCHANGED <<now, nTicks, config, lastHealthy, lastOkAt, val>>
    /\ UNCHANGED rlVars

\* the catch block on an error that is no EngramError
OnCaught(o, err, kind, at, lastSeen) ==
    LET r == [o EXCEPT !.last = kind,
                       !.transients = IF kind = "timeout" THEN @ + 1 ELSE @,
                       !.okAborts =
                           IF kind = "timeout" /\ o.pc = "body"
                           THEN @ + 1 ELSE @]
    IN  IF RetriesCaught(err, o.retries)
        THEN StartAttempt(r, o.retries - 1, at)
        ELSE Fail(r, Caught(err), lastSeen)

\* the timer of the running request() call fires: controller.abort() makes
\* the pending fetch or resp.text() reject with an AbortError
Abort(p) ==
    /\ ops[p].pc \in {"fetch", "body"}
    /\ now - ops[p].timerAt >= config.timeoutMs
    /\ ops' = [ops EXCEPT ![p] =
                  Stamp(OnCaught(ops[p], AbortError, "timeout", now,
                                 lastHealthy), lastOkAt)]
    /\ UNCHANGED <<now, nTicks, config, lastHealthy, lastOkAt, val>>
    /\ UNCHANGED rlVars

\* fetch rejects: no HTTP response (connection refused, DNS failure, ...)
NetworkError(p) ==
    /\ ops[p].pc = "fetch"
    /\ ops' = [ops EXCEPT ![p] =
                  Stamp(OnCaught(ops[p], FetchFailed, "neterr", now,
                                 lastHealthy), lastOkAt)]
    /\ UNCHANGED <<now, nTicks, config, lastHealthy, lastOkAt, val>>
    /\ UNCHANGED rlVars

\* `await new Promise(r => setTimeout(r, 1000))` ends and request() calls
\* itself with retries - 1
Wake(p) ==
    /\ ops[p].pc = "sleep"
    /\ now >= ops[p].wakeAt
    /\ ops' = [ops EXCEPT ![p] =
                  StartAttempt(ops[p], ops[p].retries - 1, now)]
    /\ UNCHANGED <<now, nTicks, config, lastHealthy, lastOkAt, val>>
    /\ UNCHANGED rlVars

(***************************************************************************)
(* SpecRL: the rate limiter called directly, as the tests call it.         *)
(* The limiter starts empty; the other initial states are the states a     *)
(* process is in after a burst of n0 admitted calls of one key at clock 0  *)
(* followed by n1 admitted calls at clock HalfWindow, so that windows near *)
(* their maximum are explored without enumerating every call before them.  *)
(***************************************************************************)
HalfWindow == RATE_LIMITS["forget"].windowMs \div 2

Burst(n0, n1) == [i \in 1..(n0 + n1) |-> IF i <= n0 THEN 0 ELSE HalfWindow]

\* <<n0, n1>> with n0 + n1 <= maxRequests: every such burst is admitted
BurstShapes(operation) ==
    IF HasLimit(operation)
    THEN LET m == RATE_LIMITS[operation].maxRequests
         IN  {<<0, 0>>, <<m - 1, 0>>, <<m, 0>>, <<1, m - 1>>}
    ELSE {<<0, 0>>}

\* no validator and no loadConfig call so far
NoCall == [fn |-> "none", arg |-> Undefined, out |-> Undefined, n |-> 0]

NoCheck ==
    [op |-> "none", at |-> 0, outcome |-> "none", retryAfterS |-> 0,
     retained |-> <<>>]

InitRL ==
    /\ \E k \in OperationKeys : \E sh \in BurstShapes(k) :
          /\ windows = [o \in OperationKeys |->
                          IF o = k THEN Burst(sh[1], sh[2]) ELSE <<>>]
          /\ admitted = windows
          /\ now = IF sh[2] = 0 THEN 0 ELSE HalfWindow
    /\ rl = NoCheck
    /\ nCalls = 0
    /\ nTicks = 0
    /\ config = [timeoutMs |-> 1000, maxRetries |-> DEFAULT_MAX_RETRIES]
    /\ lastHealthy = Null
    /\ lastOkAt = -1
    /\ ops = [p \in Procs |-> Idle]
    /\ val = NoCall

\* clock advances that put ages on, just below and just above whole seconds
\* and the window width
TickSteps == {1, 999, 59000}

\* the keys a behaviour calls: the key of the initial burst, and always
\* "forget" (a budgeted key) and "stats" (a key without a budget)
Called == {o \in OperationKeys : windows[o] # <<>>} \cup {"forget", "stats"}

NextRL ==
    \/ \E operation \in Called : checkRateLimit(operation)
    \/ \E d \in TickSteps : Tick(d)

SpecRL == InitRL /\ [][NextRL]_vars

(***************************************************************************)
(* Spec: one handler invocation, of any handler, against any backend       *)
(* behaviour.  The retry budget is any value up to the default of          *)
(* ENGRAM_MAX_RETRIES; the limiter starts empty, or one call short of a    *)
(* key's maximum, or at the maximum.                                       *)
(***************************************************************************)
\* a string that sanitizeString would change: NUL followed by "a "
Unsanitized == StringOf(<<0, 97, 32>>)

\* "hi", "", one NUL character, "a1", "../etc"; the optional fields that no
\* validator is called on are left out or hold Unsanitized (importance: 0)
ArgSamples(entry) ==
    CASE entry = "engram_remember" ->
            {[content |-> StringOf(c), layer |-> Undefined, tags |-> Undefined,
              importance |-> Undefined, source |-> Undefined] :
                c \in {<<104, 105>>, <<>>, <<0>>}}
            \cup {[content |-> StringOf(<<104, 105>>),
                   layer |-> StringOf(<<67, 79, 82, 69>>),
                   tags |-> ArrayOf(<<StringOf(<<97>>)>>),
                   importance |-> NumberOf(0), source |-> Unsanitized]}
      [] entry = "engram_recall" ->
            {[query |-> StringOf(q), layers |-> Undefined, limit |-> Undefined,
              tags |-> Undefined] : q \in {<<104, 105>>, <<32>>}}
      [] entry = "engram_search" ->
            {[query |-> StringOf(q), entityType |-> Undefined] :
                q \in {<<104, 105>>, <<>>}}
            \cup {[query |-> StringOf(<<104, 105>>),
                   entityType |-> Unsanitized]}
      [] entry = "engram_forget" ->
            {[memoryId |-> StringOf(i)] :
                i \in {<<97, 49>>, <<46, 46, 47, 101, 116, 99>>}}
      [] entry = "engram_context" ->
            {[maxTokens |-> Undefined, focus |-> f, projectId |-> f] :
                f \in {Undefined, Unsanitized}}
      [] entry = "engram_observe" ->
            {[content |-> StringOf(c), source |-> Undefined] :
                c \in {<<104, 105>>, <<>>}}
            \cup {[content |-> StringOf(<<104, 105>>),
                   source |-> Unsanitized]}
      [] entry = "memory-aware-chat" ->
            {[topic |-> t] : t \in {Undefined, Unsanitized}}
      [] OTHER -> {[none |-> Undefined]}

Entries == DOMAIN HANDLERS

Statuses == {200, 400, 401, 403, 404, 429, 500, 503}

\* the retry-after header of a response: absent, empty, "30"
RetryAfterValues == {Null, StringOf(<<>>), StringOf(<<51, 48>>)}

Bodies == {"json", "empty", "garbage", "reset"}

\* the initial states of the api, the clock at 0 and the limiter after a
\* burst of n admitted calls of key k at clock 0
InitWith(retryBudgets, k, n) ==
    /\ now = 0
    /\ windows = [o \in OperationKeys |-> IF o = k THEN Burst(n, 0) ELSE <<>>]
    /\ admitted = windows
    /\ rl = NoCheck
    /\ nCalls = 0
    /\ nTicks = 0
    /\ config \in [timeoutMs : {1000}, maxRetries : retryBudgets]
    /\ lastHealthy = Null
    /\ lastOkAt = -1
    /\ ops = [p \in Procs |-> Idle]
    /\ val = NoCall

\* the steps of the invocations P, of handlers E, the backend answering
\* with statuses S and bodies B
Step(P, E, S, B) ==
    \/ \E p \in P : \E entry \in E :
          \E args \in ArgSamples(entry) : Invoke(p, entry, args)
    \/ \E p \in P : \E status \in S :
          \E retryAfter \in IF status = 429 THEN RetryAfterValues ELSE {Null} :
             Respond(p, status, retryAfter)
    \/ \E p \in P : ErrBody(p)
    \/ \E p \in P : \E body \in B : ReadBody(p, body)
    \/ \E p \in P : Abort(p)
    \/ \E p \in P : NetworkError(p)
    \/ \E p \in P : Wake(p)
    \/ Tick(RETRY_DELAY_MS)

Init ==
    \E k \in DOMAIN RATE_LIMITS :
    \E n \in {0, RATE_LIMITS[k].maxRequests - 1, RATE_LIMITS[k].maxRequests} :
        InitWith(0..DEFAULT_MAX_RETRIES, k, n)

Next == Step({"p1"}, Entries, Statuses, Bodies)

Spec == Init /\ [][Next]_vars

(***************************************************************************)
(* SpecConc: two invocations in flight at once, each of a tool with a      *)
(* budget (engram_forget) or of a resource (memory-stats).  The backend    *)
(* answers with one status of each class, and the limiter starts empty or  *)
(* one call short of the maximum of forget.                                *)
(***************************************************************************)
ConcEntries == {"engram_forget", "memory-stats"}
ConcStatuses == {200, 404, 503}
ConcBodies == {"json", "garbage"}

InitConc ==
    \E n \in {0, RATE_LIMITS["forget"].maxRequests - 1} :
        InitWith(0..1, "forget", n)

NextConc == Step(Procs, ConcEntries, ConcStatuses, ConcBodies)

SpecConc == InitConc /\ [][NextConc]_vars

(***************************************************************************)
(* SpecVal: the validators called directly, as the tests call them, on     *)
(* every string of up to MaxStrLen characters of Chars, on strings and      *)
(* arrays around the maximum lengths, and on values that are no strings.    *)
(***************************************************************************)
\* length of the strings enumerated in full
MaxStrLen == 3
\* length of the arrays enumerated in full
MaxItems == 2

BooleanOf(b) == [t |-> "boolean", v |-> b]

\* NUL, newline, space, '-', '/', '1', 'a'
Chars == {0, 10, 32, 45, 47, 49, 97}

ShortStrings == UNION {[1..n -> Chars] : n \in 0..MaxStrLen}

\* c repeated n times
Rep(c, n) == [i \in 1..n |-> c]

\* strings whose raw or sanitized length is at, just below or just above max
Around(max) ==
    {Rep(97, max - 1), Rep(97, max), Rep(97, max + 1),
     <<32>> \o Rep(97, max), <<0>> \o Rep(97, max),
     Rep(97, max) \o <<10>>, <<0>> \o Rep(97, max + 1)}

\* "../etc", "abc/../etc", "id with spaces", "abc-123_def", "A_b", "a.b",
\* "a\n", e with an acute accent (a letter outside ASCII)
IdSamples ==
    {<<46, 46, 47, 101, 116, 99>>,
     <<97, 98, 99, 47, 46, 46, 47, 101, 116, 99>>,
     <<105, 100, 32, 119, 105, 116, 104, 32, 115, 112, 97, 99, 101, 115>>,
     <<97, 98, 99, 45, 49, 50, 51, 95, 100, 101, 102>>,
     <<65, 95, 98>>, <<97, 46, 98>>, <<97, 10>>, <<233>>}

\* values that are no strings
NonStrings ==
    {Undefined, Null, NaN, NumberOf(123), BooleanOf(TRUE), ArrayOf(<<>>),
     ArrayOf(<<StringOf(<<97>>)>>), ObjectOf(TRUE), ObjectOf(FALSE)}

StringArgs == {StringOf(cs) : cs \in ShortStrings}

ContentArgs ==
    StringArgs \cup NonStrings
        \cup {StringOf(cs) : cs \in Around(MAX_CONTENT_LENGTH)}

QueryArgs ==
    StringArgs \cup NonStrings
        \cup {StringOf(cs) : cs \in Around(MAX_QUERY_LENGTH)}

IdArgs ==
    StringArgs \cup NonStrings
        \cup {StringOf(cs) : cs \in IdSamples \cup Around(128)}

\* the first validator call of a behaviour: its name, its argument and what
\* it returned or threw
ValidatorCall(fn, arg, out) ==
    /\ val = NoCall
    /\ val' = [fn |-> fn, arg |-> arg, out |-> out, n |-> 1]
    /\ UNCHANGED <<now, nTicks, config, lastHealthy, lastOkAt, ops>>
    /\ UNCHANGED rlVars

CallSanitizeString(x) ==
    ValidatorCall("sanitizeString", x, Returns(StringOf(sanitizeString(x.v))))

CallValidateContent(x) == ValidatorCall("validateContent", x, validateContent(x))

CallValidateQuery(x) == ValidatorCall("validateQuery", x, validateQuery(x))

CallValidateId(x) == ValidatorCall("validateId", x, validateId(x))

\* "core", "CORE", "Meta", "SESSION", "semantic", "bogus", "", " core",
\* "low", "HIGH", "Critical", "medium", "META ", "\u017Fession" (long s)
EnumSamples ==
    {<<77, 69, 84, 65, 32>>, <<383, 101, 115, 115, 105, 111, 110>>,
     <<99, 111, 114, 101>>,
     <<67, 79, 82, 69>>,
     <<77, 101, 116, 97>>,
     <<83, 69, 83, 83, 73, 79, 78>>,
     <<115, 101, 109, 97, 110, 116, 105, 99>>,
     <<98, 111, 103, 117, 115>>,
     <<>>,
     <<32, 99, 111, 114, 101>>,
     <<108, 111, 119>>,
     <<72, 73, 71, 72>>,
     <<67, 114, 105, 116, 105, 99, 97, 108>>,
     <<109, 101, 100, 105, 117, 109>>}

EnumArgs == {StringOf(cs) : cs \in EnumSamples} \cup NonStrings

CallValidateLayer(x) == ValidatorCall("validateLayer", x, validateLayer(x))

CallValidateImportance(x) ==
    ValidatorCall("validateImportance", x, validateImportance(x))

\* arrays of up to MaxItems elements of E
ShortArrays(E) == UNION {[1..n -> E] : n \in 0..MaxItems}

\* "core", "META", "bogus", and values that are no strings
LayerElements ==
    {StringOf(<<99, 111, 114, 101>>), StringOf(<<77, 69, 84, 65>>), StringOf(<<98, 111, 103, 117, 115>>),
     Undefined, NumberOf(1)}

\* values that are no arrays
NonArrays == {Undefined, Null, StringOf(<<83, 69, 83, 83, 73, 79, 78>>), NumberOf(123)}

LayersArgs == {ArrayOf(vs) : vs \in ShortArrays(LayerElements)} \cup NonArrays

\* "a", " b" followed by NUL, "", NUL alone, 123, and tags of MAX_TAG_LENGTH
\* and MAX_TAG_LENGTH + 1 characters
TagElements ==
    {StringOf(<<97>>), StringOf(<<32, 98, 0>>), StringOf(<<>>),
     StringOf(<<0>>), NumberOf(123), StringOf(Rep(97, MAX_TAG_LENGTH)),
     StringOf(Rep(97, MAX_TAG_LENGTH + 1))}

\* arrays of MAX_TAGS and MAX_TAGS + 1 tags, and MAX_TAGS tags of which the
\* last is no string
LongTagArrays ==
    {Rep(StringOf(<<97>>), MAX_TAGS), Rep(StringOf(<<97>>), MAX_TAGS + 1),
     Rep(StringOf(<<97>>), MAX_TAGS - 1) \o <<NumberOf(123)>>}

TagsArgs ==
    {ArrayOf(vs) : vs \in ShortArrays(TagElements) \cup LongTagArrays}
        \cup NonArrays

CallValidateLayers(x) == ValidatorCall("validateLayers", x, validateLayers(x))

CallValidateTags(x) == ValidatorCall("validateTags", x, validateTags(x))

\* numbers at and around the bounds and the defaults, text that parseInt
\* reads ("5", "0", "51", " 7", "-3", "12px", "100000") or does not ("abc",
\* ""), and values of other types
NumberSamples ==
    {-100000, -1, 0, 1, 2, 10, 49, 50, 51, 99, 100, 101, 4000, 31999, 32000,
     32001, 100000}

NumericArgs ==
    {NumberOf(n) : n \in NumberSamples}
        \cup {StringOf(cs) : cs \in {<<53>>,
                                 <<48>>,
                                 <<53, 49>>,
                                 <<32, 55>>,
                                 <<45, 51>>,
                                 <<49, 50, 112, 120>>,
                                 <<49, 48, 48, 48, 48, 48>>,
                                 <<97, 98, 99>>,
                                 <<>>}}
        \cup NonStrings
        \cup {ArrayOf(<<NumberOf(5)>>), ArrayOf(<<NumberOf(7), NumberOf(8)>>)}

\* validateLimit(limit): max and defaultVal take their defaults, 50 and 10
CallValidateLimit(x) ==
    ValidatorCall("validateLimit", x, validateLimit(x, 50, 10))

\* validateMaxTokens(maxTokens): defaultVal takes its default, 4000
CallValidateMaxTokens(x) ==
    ValidatorCall("validateMaxTokens", x, validateMaxTokens(x, 4000))

\* the validator val.fn applied to x
Apply(fn, x) ==
    CASE fn = "sanitizeString" -> Returns(StringOf(sanitizeString(x.v)))
      [] fn = "validateContent" -> validateContent(x)
      [] fn = "validateQuery" -> validateQuery(x)
      [] fn = "validateId" -> validateId(x)
      [] fn = "validateLayer" -> validateLayer(x)
      [] fn = "validateImportance" -> validateImportance(x)
      [] fn = "validateLayers" -> validateLayers(x)
      [] fn = "validateTags" -> validateTags(x)
      [] fn = "validateLimit" -> validateLimit(x, 50, 10)
      [] fn = "validateMaxTokens" -> validateMaxTokens(x, 4000)

\* the value a validator returned is validated again by the same validator
Revalidate ==
    /\ val.n = 1
    /\ val.out.ok
    /\ val' = [fn |-> val.fn, arg |-> val.out.v,
               out |-> Apply(val.fn, val.out.v), n |-> 2]
    /\ UNCHANGED <<now, nTicks, config, lastHealthy, lastOkAt, ops>>
    /\ UNCHANGED rlVars

InitVal ==
    /\ now = 0
    /\ windows = [o \in OperationKeys |-> <<>>]
    /\ admitted = windows
    /\ rl = NoCheck
    /\ nCalls = 0
    /\ nTicks = 0
    /\ config = [timeoutMs |-> 1000, maxRetries |-> DEFAULT_MAX_RETRIES]
    /\ lastHealthy = Null
    /\ lastOkAt = -1
    /\ ops = [p \in Procs |-> Idle]
    /\ val = NoCall

NextVal ==
    \/ Revalidate
    \/ \E x \in StringArgs : CallSanitizeString(x)
    \/ \E x \in ContentArgs : CallValidateContent(x)
    \/ \E x \in QueryArgs : CallValidateQuery(x)
    \/ \E x \in IdArgs : CallValidateId(x)
    \/ \E x \in EnumArgs : CallValidateLayer(x)
    \/ \E x \in EnumArgs : CallValidateImportance(x)
    \/ \E x \in LayersArgs : CallValidateLayers(x)
    \/ \E x \in TagsArgs : CallValidateTags(x)
    \/ \E x \in NumericArgs : CallValidateLimit(x)
    \/ \E x \in NumericArgs : CallValidateMaxTokens(x)

SpecVal == InitVal /\ [][NextVal]_vars

(***************************************************************************)
(* SpecBoot: the process from its start.  index.ts calls loadConfig() once, *)
(* at module load; if loadConfig returns, the EngramAPI is constructed with *)
(* the Config and the handlers run (here one engram_forget invocation); if  *)
(* it exits, nothing runs.                                                  *)
(***************************************************************************)
\* the environments explored
Environments ==
    [ENGRAM_API_KEY : {Unset, Env(""), Env("key")},
     ENGRAM_USER_ID : {Unset},
     ENGRAM_API_URL :
        {Unset, Env(EmptyUrl), Env(UrlText("http", "example.com", FALSE)),
         Env(UrlText("https", "example.com", TRUE))},
     ENGRAM_BASE_URL :
        {Unset, Env(UrlText("http", "localhost", FALSE)),
         Env(UrlText("http", "LOCALHOST", TRUE)),
         Env(UrlText("http", "127.0.0.1", FALSE)),
         Env(UrlText("http", "[::1]", FALSE)),
         Env(UrlText("ws", "example.com", FALSE))},
     ENGRAM_ALLOW_HTTP : {Unset, Env(""), Env("true"), Env("false")},
     ENGRAM_LOG_LEVEL : {Unset, Env("verbose")},
     ENGRAM_TIMEOUT_MS : {Unset},
     ENGRAM_MAX_RETRIES : {Unset, Env(<<48>>)}]

\* before loadConfig has run there is no Config
NoConfig ==
    [apiKey |-> "", userId |-> "", baseUrl |-> EmptyUrl, timeoutMs |-> 0,
     logLevel |-> "", maxRetries |-> 0]

\* `const config = loadConfig()` at module load
Start(env) ==
    /\ val = NoCall
    /\ val' = [fn |-> "loadConfig", arg |-> env, out |-> loadConfig(env),
               n |-> 1]
    /\ config' = IF loadConfig(env).exited THEN config
                 ELSE loadConfig(env).config
    /\ UNCHANGED <<now, nTicks, lastHealthy, lastOkAt, ops>>
    /\ UNCHANGED rlVars

\* loadConfig returned: the server is up
Running == val.fn = "loadConfig" /\ ~val.out.exited

InitBoot ==
    /\ now = 0
    /\ windows = [o \in OperationKeys |-> <<>>]
    /\ admitted = windows
    /\ rl = NoCheck
    /\ nCalls = 0
    /\ nTicks = 0
    /\ config = NoConfig
    /\ lastHealthy = Null
    /\ lastOkAt = -1
    /\ ops = [p \in Procs |-> Idle]
    /\ val = NoCall

NextBoot ==
    \/ \E env \in Environments : Start(env)
    \/ Running /\ Invoke("p1", "engram_forget",
                          [memoryId |-> StringOf(<<97, 49>>)])
    \/ Running /\ \E status \in {200, 503} : Respond("p1", status, Null)
    \/ Running /\ ErrBody("p1")
    \/ Running /\ ReadBody("p1", "json")
    \/ Running /\ NetworkError("p1")
    \/ Running /\ Wake("p1")
    \/ Running /\ Tick(RETRY_DELAY_MS)

SpecBoot == InitBoot /\ [][NextBoot]_vars

(***************************************************************************)
(* Properties of the rate limiter (SpecRL).                                *)
(***************************************************************************)
Min(S) == CHOOSE x \in S : \A y \in S : x <= y

\* the admitted calls of key k whose timestamps lie in [from, from + width)
InWindow(k, from, width) ==
    {j \in 1..Len(admitted[k]) :
        from <= admitted[k][j] /\ admitted[k][j] < from + width}

\* C1: for every key with a budget, no 60-second sliding window (a window
\* [s, s + windowMs), taken at every admitted timestamp s) holds more
\* admitted calls than the key's maximum.
C1_NeverOverBudget ==
    \A k \in DOMAIN RATE_LIMITS :
        \A s \in {admitted[k][i] : i \in 1..Len(admitted[k])} :
            Cardinality(InWindow(k, s, RATE_LIMITS[k].windowMs))
                <= RATE_LIMITS[k].maxRequests

\* a key was filled, its oldest entries expired, it admitted again and then
\* rejected a call
C1_Witness ==
    \E k \in DOMAIN RATE_LIMITS :
        /\ Len(admitted[k]) > RATE_LIMITS[k].maxRequests
        /\ rl.op = k
        /\ rl.outcome = "rejected"

\* the admitted timestamps of key k that are younger than the window at `at`
Young(k, at) ==
    {t \in {admitted[k][j] : j \in 1..Len(admitted[k])} :
        at - t < RATE_LIMITS[k].windowMs}

\* C2: a rejection reports the window width minus the age of the oldest
\* timestamp still in the window, rounded up to whole seconds, a value in
\* 1..60; and a forget call is admitted only when fewer than 10 admitted
\* forget calls are younger than 60 seconds (the 11th is rejected).
C2_RetryAfter ==
    /\ rl.outcome = "rejected" =>
          LET W   == RATE_LIMITS[rl.op].windowMs
              age == rl.at - Min(Young(rl.op, rl.at))
          IN  /\ (rl.retryAfterS - 1) * 1000 < W - age
              /\ W - age <= rl.retryAfterS * 1000
              /\ rl.retryAfterS > 0
              /\ rl.retryAfterS <= 60
    /\ (rl.op = "forget" /\ rl.outcome = "admitted") =>
          Cardinality(InWindow("forget", rl.at - 59999, 60000)) <= 10

\* a forget call rejected when the oldest counted call is 59,999 ms old:
\* 1 ms is left, reported as 1 second
C2_Witness ==
    /\ rl.op = "forget"
    /\ rl.outcome = "rejected"
    /\ rl.at - Min(Young("forget", rl.at)) = 59999
    /\ rl.retryAfterS = 1

(***************************************************************************)
(* Properties of the handlers and of EngramAPI.request (Spec, SpecConc).   *)
(***************************************************************************)
Started(o) == o.pc # "idle"
IsTool(o) == Started(o) /\ HANDLERS[o.entry].kind = "tool"
Invalid(o) == IsTool(o) /\ ~Validation(o.entry, o.args).ok

\* C3: a tool invocation whose arguments fail validation, or which the rate
\* limiter rejects, has ended with a 'Validation error' or 'Rate limit
\* exceeded' error result and has made no fetch call.
C3_NoNetworkOnLocalFailure ==
    \A p \in Procs :
        (Invalid(ops[p]) \/ (IsTool(ops[p]) /\ ops[p].check = "rejected")) =>
            /\ ops[p].pc = "done"
            /\ ops[p].attempts = 0
            /\ ops[p].result.isError
            /\ ops[p].result.text[1] \in
                  {"Validation error: ", "Rate limit exceeded for "}
            /\ ops[p].check = "rejected" <=>
                  ops[p].result.text[1] = "Rate limit exceeded for "

\* the limiter admitted the call and the memory id '../etc' failed validation
C3_Witness ==
    /\ ops["p1"].entry = "engram_forget"
    /\ Invalid(ops["p1"])
    /\ ops["p1"].check = "admitted"
    /\ ops["p1"].pc = "done"
    /\ ops["p1"].result.text[1] = "Validation error: "

\* C4: an operation that ends on a fully delivered 2xx response returns it,
\* after one attempt more than the transient failures (5xx, timeout) before
\* it; and a transient failure ends an operation only when maxRetries + 1
\* attempts have failed, so k <= maxRetries failures are always followed by
\* another attempt.
C4_SuccessAfterTransients ==
    \A p \in Procs :
        /\ (ops[p].pc = "done" /\ ops[p].last = "ok") =>
              /\ ops[p].returned
              /\ ops[p].err = NoError
              /\ ops[p].attempts = ops[p].transients + 1
              /\ ops[p].transients <= config.maxRetries
        /\ (ops[p].pc = "done" /\ ops[p].last \in {"5xx", "timeout"}) =>
              ops[p].transients = config.maxRetries + 1
        /\ ops[p].pc = "sleep" => ops[p].retries > 0

\* two failures, then the success, with a budget of 2: three attempts
C4_Witness ==
    /\ config.maxRetries = 2
    /\ ops["p1"].pc = "done"
    /\ ops["p1"].returned
    /\ ops["p1"].serverErrors = 2
    /\ ops["p1"].attempts = 3

\* C5: an operation never makes more than maxRetries + 1 fetch calls; the
\* remaining budget is never negative and goes down by one with each
\* further call, whether a 5xx response or a timeout caused it.
C5_RetryBudget ==
    \A p \in Procs :
        /\ ops[p].attempts <= config.maxRetries + 1
        /\ ops[p].retries >= 0
        /\ ops[p].attempts > 0 =>
              ops[p].attempts + ops[p].retries = config.maxRetries + 1

\* the budget of 2 used up by one 5xx response and two timeouts
C5_Witness ==
    /\ config.maxRetries = 2
    /\ ops["p1"].pc = "done"
    /\ ops["p1"].attempts = 3
    /\ ops["p1"].serverErrors = 1
    /\ ops["p1"].transients = 3

\* C6: a 401, 403, 404 or 429 response ends the operation at once with the
\* matching error, which is not marked offline, whatever budget is left;
\* the 429 error carries the retry-after value when the header has one.
C6_NonRetriable ==
    \A p \in Procs :
        ops[p].status \in {401, 403, 404, 429} =>
            /\ ops[p].pc = "done"
            /\ ops[p].err.class = "EngramError"
            /\ ops[p].err.statusCode = ops[p].status
            /\ ~ops[p].err.offline
            /\ ops[p].attempts + ops[p].retries = config.maxRetries + 1
            /\ ops[p].err.message[1] =
                  (CASE ops[p].status \in {401, 403} ->
                          "API key invalid or expired"
                     [] ops[p].status = 404 -> "Resource not found"
                     [] OTHER -> "Rate limited by Engram backend")
            /\ (ops[p].status = 429 /\ Truthy(ops[p].retryAfter)) =>
                  /\ Len(ops[p].err.message) = 4
                  /\ ops[p].err.message[3] = ops[p].retryAfter.v

\* a first response 429 with retry-after 30, the whole budget of 2 unused
C6_Witness ==
    /\ ops["p1"].status = 429
    /\ ops["p1"].retryAfter = StringOf(<<51, 48>>)
    /\ ops["p1"].pc = "done"
    /\ ops["p1"].attempts = 1
    /\ ops["p1"].retries = 2

\* C7: when maxRetries + 1 attempts have failed transiently the operation
\* has ended; if the last attempt timed out the error is 'Request timed
\* out', if it got a 5xx response the error is 'Engram API error' with the
\* status of that response.
C7_Exhausted ==
    \A p \in Procs :
        ops[p].transients = config.maxRetries + 1 =>
            /\ ops[p].pc \in {"errBody", "done"}
            /\ (ops[p].pc = "done" /\ ops[p].last = "timeout") =>
                  /\ ops[p].err.message = <<"Request timed out">>
                  /\ ops[p].err.statusCode = 0
            /\ (ops[p].pc = "done" /\ ops[p].last = "5xx") =>
                  /\ ops[p].status >= 500
                  /\ ops[p].err.message[1] = "Engram API error: "
                  /\ ops[p].err.statusCode = ops[p].status
                  /\ ~ops[p].err.offline

\* 5xx, timeout, timeout with a budget of 2: the operation ends timed out
C7_Witness ==
    /\ config.maxRetries = 2
    /\ ops["p1"].pc = "done"
    /\ ops["p1"].transients = 3
    /\ ops["p1"].serverErrors = 1
    /\ ops["p1"].last = "timeout"
    /\ ops["p1"].err.message = <<"Request timed out">>

\* the caller is told the backend is unreachable
ReportedOffline(o) ==
    /\ o.pc = "done"
    /\ o.err.class = "EngramError"
    /\ o.err.offline

\* C9: an operation is reported as Offline only if its final attempt failed
\* at connection level, never after a timeout or after an HTTP response.
C9_OfflineOnlyOnConnectionFailure ==
    \A p \in Procs : ReportedOffline(ops[p]) => ops[p].last = "neterr"

\* the operation ended on a connection-level failure of fetch
EndedOffline(o) == o.pc = "done" /\ o.last = "neterr"

\* the parts of the offline message after 'Memory <operation> unavailable -
\* cannot reach Engram backend.'
LastSeenPart(o) == SubSeq(o.result.text, 4, Len(o.result.text))

\* C8 as claimed: a connection-level failure ends the operation as Offline
\* without a retry, and the message includes "unset" if no request has
\* succeeded before, the timestamp of the latest success otherwise.
C8_OfflineMessage_Claimed ==
    \A p \in Procs :
        /\ ops[p].last = "neterr" => ReportedOffline(ops[p])
        /\ (EndedOffline(ops[p]) /\ ops[p].okAtEnd = -1) =>
              \E i \in 1..Len(ops[p].result.text) :
                  ops[p].result.text[i] = "unset"
        /\ (EndedOffline(ops[p]) /\ ops[p].okAtEnd >= 0) =>
              LastSeenPart(ops[p]) =
                  <<" Last seen: ", toISOString(ops[p].okAtEnd).v>>

\* C8 as amended: a connection-level failure ends the operation as Offline
\* without a retry; the message of a tool says nothing about a last success
\* if no request has succeeded before, and otherwise ends with ' Last seen: '
\* and the timestamp of the latest success; the message of a resource never
\* carries a timestamp.
C8_OfflineMessage ==
    \A p \in Procs :
        /\ ops[p].last = "neterr" =>
              /\ ReportedOffline(ops[p])
              /\ ops[p].err.message[1] = "Cannot reach Engram backend: "
              /\ ops[p].attempts + ops[p].retries = config.maxRetries + 1
        /\ (EndedOffline(ops[p]) /\ IsTool(ops[p])) =>
              /\ ops[p].result.isError
              /\ ops[p].result.text[3] =
                    " unavailable - cannot reach Engram backend."
              /\ LastSeenPart(ops[p]) =
                    IF ops[p].okAtEnd = -1 THEN <<>>
                    ELSE <<" Last seen: ", toISOString(ops[p].okAtEnd).v>>
        /\ (EndedOffline(ops[p]) /\ ~IsTool(ops[p])) =>
              Len(ops[p].result.text) = 1

\* p1 succeeded at 1000 ms; later p2's first fetch fails, budget unused
C8_Witness ==
    /\ ops["p1"].returned
    /\ EndedOffline(ops["p2"])
    /\ ops["p2"].okAtEnd = 1000
    /\ now > 1000
    /\ ops["p2"].attempts = 1
    /\ ops["p2"].retries > 0
    /\ Len(ops["p2"].result.text) = 5

\* lexicographic order of the calendar fields, the order of the ISO strings
IsoLeq(a, b) ==
    \/ a[1] < b[1]
    \/ a[1] = b[1] /\ a[2] < b[2]
    \/ a[1] = b[1] /\ a[2] = b[2] /\ a[3] <= b[3]

\* some invocation receives a 2xx response in this step
GetsOk == \E p \in Procs : ops[p].pc = "fetch" /\ ops'[p].pc = "body"

C10_Step ==
    /\ GetsOk => lastHealthy' = toISOString(now)
    /\ lastHealthy' # lastHealthy => GetsOk
    /\ lastHealthy # Null =>
          /\ lastHealthy' # Null
          /\ IsoLeq(lastHealthy.v, lastHealthy'.v)

\* C10: lastHealthy starts unset; every step in which a 2xx response
\* arrives sets it to the current time, no other step changes it, it is
\* never unset again and never moves backwards; and it is set by the time
\* a result is returned.
C10_LastHealthy ==
    /\ lastHealthy = Null
    /\ [][C10_Step]_vars
    /\ [](\A p \in Procs : ops[p].returned => lastHealthy # Null)

\* both invocations returned a result, the later success at 1000 ms or after
C10_Witness ==
    /\ ops["p1"].returned
    /\ ops["p2"].returned
    /\ lastOkAt >= 1000
    /\ lastHealthy = toISOString(lastOkAt)
    /\ ops["p1"].okAtEnd < lastOkAt

(***************************************************************************)
(* Outcome of an invocation (Spec).                                        *)
(***************************************************************************)
ErrorOutcomes ==
    {"Validation", "RateLimited", "Auth", "NotFound", "RemoteRateLimited",
     "Timeout", "Offline", "Unexpected"}

\* the invocation ended with the handler's success result
Succeeded(o) ==
    o.pc = "done" /\ o.returned /\ o.err = NoError /\ ~o.result.isError
        /\ o.result.text \in {<<"result">>, <<"empty">>}

\* what made the invocation fail, from its history
Cause(o) ==
    IF o.check = "rejected" THEN "RateLimited"
    ELSE IF Invalid(o) THEN "Validation"
    ELSE IF o.last = "neterr" THEN "Offline"
    ELSE IF o.last = "timeout" THEN "Timeout"
    ELSE IF o.last \in {"status", "5xx"} /\ o.status \in {401, 403} THEN "Auth"
    ELSE IF o.last \in {"status", "5xx"} /\ o.status = 404 THEN "NotFound"
    ELSE IF o.last \in {"status", "5xx"} /\ o.status = 429
    THEN "RemoteRateLimited"
    ELSE "Unexpected"

\* the outcome a message stands for, by its first piece
OutcomeOfMessage(piece) ==
    CASE piece = "Validation error: " -> "Validation"
      [] piece = "Rate limit exceeded for " -> "RateLimited"
      [] piece = "API key invalid or expired" -> "Auth"
      [] piece = "Resource not found" -> "NotFound"
      [] piece = "Rate limited by Engram backend" -> "RemoteRateLimited"
      [] piece = "Request timed out" -> "Timeout"
      [] piece \in {"Memory ", "{\"error\": \"Engram backend offline\"}",
                    "Engram backend offline - context unavailable"} -> "Offline"
      [] piece \in {"Engram API error: ", "Unexpected error during "}
            -> "Unexpected"
      [] OTHER -> "none"

\* the outcome the caller can read off the result: a tool's error result,
\* or the error text a resource returns as its contents
Shown(o) ==
    IF HANDLERS[o.entry].kind = "tool"
    THEN IF o.result.isError /\ o.result.text # <<>>
         THEN OutcomeOfMessage(o.result.text[1]) ELSE "none"
    ELSE IF Len(o.result.text) >= 2
              /\ o.result.text[1] \in {"{\"error\": \"", "Error: "}
    THEN OutcomeOfMessage(o.result.text[2])
    ELSE IF o.result.text # <<>> THEN OutcomeOfMessage(o.result.text[1])
    ELSE "none"

\* C11 (its statement about outcomes): an operation that has ended either
\* returned a success result or shows the caller exactly the one error
\* outcome, of the closed set, that made it fail; no failure is swallowed.
C11_OneOutcome ==
    \A p \in Procs :
        ops[p].pc = "done" =>
            \/ Succeeded(ops[p])
            \/ Shown(ops[p]) \in ErrorOutcomes /\ Shown(ops[p]) = Cause(ops[p])

(***************************************************************************)
(* Pass-through of the rate limiter (SpecRL).                              *)
(***************************************************************************)
Unbudgeted == OperationKeys \ DOMAIN RATE_LIMITS

\* this step is a checkRateLimit(k) call
CallOf(k) == nCalls' = nCalls + 1 /\ rl'.op = k

\* C12: a checkRateLimit call with a key that has no entry in RATE_LIMITS
\* is never rejected, whatever the number of earlier calls with that key and
\* the state of the other keys' windows: it passes and leaves the Map as it
\* was.
C12_UnknownKeysPass ==
    [][\A k \in Unbudgeted :
          CallOf(k) =>
              /\ rl'.outcome = "pass"
              /\ admitted'[k] = Append(admitted[k], now)
              /\ windows' = windows]_vars

\* MaxCalls calls with "stats" have passed while another key's window is at
\* its maximum
C12_Witness ==
    /\ rl.op = "stats"
    /\ rl.outcome = "pass"
    /\ nCalls = MaxCalls
    /\ Len(admitted["stats"]) = MaxCalls
    /\ \E k \in DOMAIN RATE_LIMITS :
          Len(Retained(k, now)) = RATE_LIMITS[k].maxRequests

(***************************************************************************)
(* Properties of the validators (SpecVal).                                 *)
(***************************************************************************)
\* the validators that return sanitized strings
Sanitizing ==
    {"sanitizeString", "validateContent", "validateQuery", "validateTags"}

\* C13: sanitization is idempotent, so a value that sanitizeString,
\* validateContent, validateQuery or validateTags returned is returned
\* unchanged when it is validated again.
C13_SanitizeIdempotent ==
    (val.n = 2 /\ val.fn \in Sanitizing) => val.out = Returns(val.arg)

\* 'A'..'Z', 'a'..'z', '0'..'9', '_' and '-'
IdAlphabet == (65..90) \cup (97..122) \cup (48..57) \cup {95, 45}

WellFormedId(x) ==
    /\ x.t = "string"
    /\ Len(x.v) \in 1..128
    /\ {x.v[i] : i \in 1..Len(x.v)} \subseteq IdAlphabet

\* C14: validateId returns its input unchanged exactly when the input is a
\* string of 1 to 128 characters of A-Z, a-z, 0-9, '_' and '-'; every other
\* input fails with the 'Invalid ID' error.
C14_ValidateId ==
    val.fn = "validateId" =>
        IF WellFormedId(val.arg)
        THEN val.out = Returns(val.arg)
        ELSE ~val.out.ok /\ val.out.message = <<"Invalid ID format. Must be 1-128 alphanumeric characters, hyphens, or underscores.">>

\* an id of exactly 128 characters was accepted
C14_Witness ==
    /\ val.fn = "validateId"
    /\ val.n = 1
    /\ val.arg.t = "string"
    /\ Len(val.arg.v) = 128
    /\ val.out.ok

\* the field a length-checking validator validates, and its maximum
FieldOf(fn) == IF fn = "validateContent" THEN "content" ELSE "query"
MaxOf(fn) ==
    IF fn = "validateContent" THEN MAX_CONTENT_LENGTH ELSE MAX_QUERY_LENGTH

\* C15: validateContent (50,000) and validateQuery (2,000) compare the
\* length of the sanitized value with the maximum: a non-blank string whose
\* sanitized length is at most the maximum succeeds, a longer one fails with
\* a message naming the maximum, and no returned string is longer than the
\* maximum.
C15_LengthBounds ==
    (val.fn \in {"validateContent", "validateQuery"} /\ val.arg.t = "string"
        /\ Trim(val.arg.v) # <<>>) =>
        LET clean == Trim(SelectSeq(val.arg.v, LAMBDA c : ~IsControl(c)))
        IN  IF Len(clean) <= MaxOf(val.fn)
            THEN val.out.ok /\ Len(val.out.v.v) <= MaxOf(val.fn)
            ELSE /\ ~val.out.ok
                 /\ val.out.message =
                       <<FieldOf(val.fn) \o " exceeds maximum length of ",
                         ToString(MaxOf(val.fn)), " characters">>

\* a content of 50,001 characters, 50,000 after trimming, was accepted
C15_Witness ==
    /\ val.fn = "validateContent"
    /\ val.n = 1
    /\ val.arg.t = "string"
    /\ Len(val.arg.v) = MAX_CONTENT_LENGTH + 1
    /\ val.out.ok
    /\ Len(val.out.v.v) = MAX_CONTENT_LENGTH

\* the members of an enumeration, as a set
MembersOf(fn) ==
    IF fn = "validateLayer"
    THEN {VALID_LAYERS[i] : i \in 1..Len(VALID_LAYERS)}
    ELSE {VALID_IMPORTANCE[i] : i \in 1..Len(VALID_IMPORTANCE)}

\* the characters that are the upper-case letter u in some case
CaseVariants(u) ==
    {u, u + 32} \cup (IF u = 73 THEN {305} ELSE {})
                \cup (IF u = 83 THEN {383} ELSE {})

\* cs is the member m up to the case of its letters
MatchesIgnoringCase(cs, m) ==
    Len(cs) = Len(m) /\ \A i \in 1..Len(m) : cs[i] \in CaseVariants(m[i])

\* C16: validateLayer and validateImportance return the upper-case member
\* that the input matches case-insensitively, return undefined for an absent
\* input (undefined or null), and fail on every other input.
C16_Enumerations ==
    val.fn \in {"validateLayer", "validateImportance"} =>
        IF val.arg.t \in {"undefined", "null"}
        THEN val.out = Returns(Undefined)
        ELSE IF val.arg.t = "string"
                /\ \E m \in MembersOf(val.fn) :
                      MatchesIgnoringCase(val.arg.v, m)
        THEN \E m \in MembersOf(val.fn) :
                /\ MatchesIgnoringCase(val.arg.v, m)
                /\ val.out = Returns(StringOf(m))
        ELSE ~val.out.ok

\* "Critical" was returned as "CRITICAL"
C16_Witness ==
    /\ val.fn = "validateImportance"
    /\ val.n = 1
    /\ val.arg = StringOf(<<67, 114, 105, 116, 105, 99, 97, 108>>)
    /\ val.out = Returns(StringOf(VALID_IMPORTANCE[4]))

\* a tag that passes: a string, non-empty after sanitization, of at most
\* MAX_TAG_LENGTH characters
Clean(cs) == Trim(SelectSeq(cs, LAMBDA c : ~IsControl(c)))

TagOk(e) ==
    /\ e.t = "string"
    /\ Clean(e.v) # <<>>
    /\ Len(Clean(e.v)) <= MAX_TAG_LENGTH

\* a layer that passes: a string that is a member of the layer set up to
\* the case of its letters
LayerOk(e) ==
    /\ e.t = "string"
    /\ \E m \in MembersOf("validateLayer") : MatchesIgnoringCase(e.v, m)

CanonicalLayer(e) ==
    CHOOSE m \in MembersOf("validateLayer") : MatchesIgnoringCase(e.v, m)

LowestOf(fn) == IF fn = "validateLimit" THEN 1 ELSE 100
HighestOf(fn) == IF fn = "validateLimit" THEN 50 ELSE 32000
DefaultOf(fn) == IF fn = "validateLimit" THEN 10 ELSE 4000

\* an input that is no number and does not read as one
NonNumeric(x) ==
    \/ x.t \in {"nan", "boolean", "object"}
    \/ x.t = "string" /\ \A i \in 1..Len(x.v) : x.v[i] \notin 48..57

\* C18: validateLimit and validateMaxTokens never fail; the result lies in
\* [1, 50] or [100, 32000]; absent input, non-numeric input and a number
\* below the minimum give the default (10, 4000), a number above the maximum
\* gives the maximum.
C18_NumericClamps ==
    val.fn \in {"validateLimit", "validateMaxTokens"} =>
        LET lo == LowestOf(val.fn)
            hi == HighestOf(val.fn)
        IN  /\ val.out.ok
            /\ val.out.v.t = "number"
            /\ val.out.v.v >= lo
            /\ val.out.v.v <= hi
            /\ (val.arg.t \in {"undefined", "null"} \/ NonNumeric(val.arg)
                   \/ (val.arg.t = "number" /\ val.arg.v < lo))
                  => val.out.v.v = DefaultOf(val.fn)
            /\ (val.arg.t = "number" /\ val.arg.v > hi) => val.out.v.v = hi

(***************************************************************************)
(* Properties of the startup (SpecBoot).                                   *)
(***************************************************************************)
\* a base URL that is neither on a loopback host nor https
Insecure(u) ==
    /\ u.host \notin {"localhost", "LOCALHOST", "127.0.0.1", "[::1]"}
    /\ u.scheme # "https"

AllowHttpIsTrue(env) == env.ENGRAM_ALLOW_HTTP = Env("true")

\* a request has been sent to the backend
RequestSent == \E p \in Procs : ops[p].attempts > 0

\* C19: loadConfig exits with code 1 on every environment whose base URL is
\* neither on a loopback host nor https, unless ENGRAM_ALLOW_HTTP is "true";
\* no such configuration is returned and used for requests.
C19_HttpsEnforced ==
    (val.fn = "loadConfig" /\ Insecure(BaseUrlOf(val.arg))
        /\ ~AllowHttpIsTrue(val.arg)) =>
            /\ val.out = Exit(1)
            /\ ~RequestSent

\* C20: loadConfig exits with code 1 when ENGRAM_API_KEY is not set; no
\* request is sent with a missing API key.
C20_ApiKeyRequired ==
    /\ (val.fn = "loadConfig" /\ ~val.arg.ENGRAM_API_KEY.set) =>
          val.out = Exit(1)
    /\ RequestSent => config.apiKey # ""

(***************************************************************************)
(* Order of the steps of a handler (Spec).                                 *)
(***************************************************************************)
\* C21: a tool invocation whose arguments fail validation is rejected with
\* 'Validation error' without checkRateLimit having been called: the
\* limiter has recorded no check and no timestamp for it.
C21_ValidatorFirst ==
    \A p \in Procs :
        Invalid(ops[p]) =>
            /\ ops[p].result.text[1] = "Validation error: "
            /\ ops[p].check = "none"
            /\ rl = NoCheck

\* the backend operation of the invocation has an entry in RATE_LIMITS
Budgeted(o) == Started(o) /\ HasLimit(HANDLERS[o.entry].api)

\* C22: an invocation that has sent a request for a backend operation with
\* a rate budget was admitted by checkRateLimit, called with that
\* operation's key, before the request.
C22_LimiterBeforeBackend ==
    \A p \in Procs :
        (Budgeted(ops[p]) /\ ops[p].attempts > 0) =>
            /\ ops[p].check = "admitted"
            /\ HANDLERS[ops[p].entry].key = HANDLERS[ops[p].entry].api

\* C23: once an attempt has received a 2xx response (the invocation awaits
\* the response body), no step makes another network attempt for it.
C23_SuccessIsTerminal ==
    [][\A p \in Procs :
          ops[p].pc = "body" => ops'[p].attempts = ops[p].attempts]_vars

\* C24: a network attempt that follows another attempt of the same
\* invocation starts from the 1 second wait, after it has elapsed; no
\* retry is sent by the step that ends the failed attempt.
C24_WaitBetweenAttempts ==
    [][\A p \in Procs :
          (ops[p].attempts > 0 /\ ops'[p].attempts = ops[p].attempts + 1) =>
              /\ ops[p].pc = "sleep"
              /\ now >= ops[p].wakeAt
              /\ ops[p].wakeAt >= ops[p].timerAt + RETRY_DELAY_MS]_vars

(***************************************************************************)
(* Concurrent invocations and the limiter (SpecConc).                      *)
(***************************************************************************)
\* the invocations of engram_forget that checkRateLimit admitted
AdmittedForgets ==
    {p \in Procs : ops[p].entry = "engram_forget" /\ ops[p].check = "admitted"}

\* both invocations are engram_forget calls, and one slot of the forget
\* window was free before the first of them
LastSlotRace ==
    /\ \A p \in Procs : ops[p].entry = "engram_forget"
    /\ Len(admitted["forget"]) - Cardinality(AdmittedForgets)
          = RATE_LIMITS["forget"].maxRequests - 1

\* C25: when one slot remains in the forget window and two engram_forget
\* invocations run concurrently, exactly one is admitted and the other is
\* rejected with 'Rate limit exceeded', in whichever order their handlers
\* start; the window never holds more than the maximum.
C25_AtomicCheckAndRecord ==
    LastSlotRace =>
        /\ Cardinality(AdmittedForgets) = 1
        /\ \A p \in Procs \ AdmittedForgets :
              /\ ops[p].check = "rejected"
              /\ ops[p].attempts = 0
              /\ ops[p].result.text[1] = "Rate limit exceeded for "
        /\ Len(windows["forget"]) = RATE_LIMITS["forget"].maxRequests

\* the second invocation was rejected while the admitted one was still
\* waiting for its response
C25_Witness ==
    /\ LastSlotRace
    /\ \E p \in AdmittedForgets : ops[p].pc = "fetch"
    /\ \E p \in Procs : ops[p].check = "rejected"

(***************************************************************************)
(* Non-empty content and query (SpecVal).                                  *)
(***************************************************************************)
\* C26: validateContent and validateQuery either throw or return a
\* non-empty string: an input that is empty once its control characters
\* are stripped and it is trimmed is never returned as the empty string.
C26_NonEmptyAfterSanitizing ==
    (val.fn \in {"validateContent", "validateQuery"} /\ val.out.ok) =>
        /\ val.out.v.t = "string"
        /\ val.out.v.v # <<>>

(***************************************************************************)
(* Pruning and rejected calls (SpecRL).                                    *)
(***************************************************************************)
\* this step is a checkRateLimit call with a key that has a budget
BudgetedCall == nCalls' = nCalls + 1 /\ HasLimit(rl'.op)

\* the timestamps recorded for k before the call whose age at the call is
\* at most maxAge
Kept(k, maxAge) == SelectSeq(windows[k], LAMBDA t : now - t <= maxAge)

\* the call counts the timestamps of age at most maxAge and discards the
\* others: it is rejected when they are at the maximum, and otherwise the
\* Map holds them followed by the time of the call
Counts(maxAge) ==
    LET k == rl'.op
    IN  /\ rl'.retained = Kept(k, maxAge)
        /\ rl'.outcome = "rejected" <=>
              Len(Kept(k, maxAge)) >= RATE_LIMITS[k].maxRequests
        /\ rl'.outcome = "admitted" =>
              windows'[k] = Append(Kept(k, maxAge), now)

\* C27 as claimed: a check discards exactly the timestamps whose age is
\* strictly greater than the window width (60,000 ms) before comparing the
\* count; a timestamp aged exactly 60,000 ms is retained and counted.
C27_PruneBoundary_Claimed ==
    [][BudgetedCall => Counts(RATE_LIMITS[rl'.op].windowMs)]_vars

\* C27: a check discards exactly the timestamps whose age is at least the
\* window width (60,000 ms) before comparing the count; a timestamp aged
\* exactly 60,000 ms is discarded and no longer counts, one aged 59,999 ms
\* is retained and counted.
C27_PruneBoundary ==
    [][BudgetedCall => Counts(RATE_LIMITS[rl'.op].windowMs - 1)]_vars

\* a call was admitted although the window held the maximum number of
\* timestamps, their age being exactly the window width
C27_Witness ==
    /\ HasLimit(rl.op)
    /\ rl.outcome = "admitted"
    /\ rl.retained = <<>>
    /\ Len(admitted[rl.op]) = RATE_LIMITS[rl.op].maxRequests + 1
    /\ \A i \in 1..RATE_LIMITS[rl.op].maxRequests :
          rl.at - admitted[rl.op][i] = RATE_LIMITS[rl.op].windowMs

\* the oldest timestamp recorded for k has expired at the time of the call
OldestExpired(k) ==
    /\ windows[k] # <<>>
    /\ now - windows[k][1] >= RATE_LIMITS[k].windowMs

\* C29: a rejected checkRateLimit call records nothing, for its own key and
\* for every other key, and a call made once the oldest recorded timestamp
\* of its key has expired is admitted, whatever was rejected before it.
C29_RejectionRecordsNothing ==
    [][BudgetedCall =>
          /\ rl'.outcome = "rejected" =>
                (windows' = windows /\ admitted' = admitted)
          /\ OldestExpired(rl'.op) => rl'.outcome = "admitted"]_vars

\* three forget calls of which only the last was admitted beyond the first
\* maximum: calls were rejected at a full window, and the call made once
\* the window's entries had expired was admitted
C29_Witness ==
    /\ nCalls = 3
    /\ rl.op = "forget"
    /\ rl.outcome = "admitted"
    /\ Len(admitted["forget"]) = RATE_LIMITS["forget"].maxRequests + 1
    /\ \A k \in OperationKeys \ {"forget"} : admitted[k] = <<>>

(***************************************************************************)
(* What is sent to the backend (Spec).                                     *)
(***************************************************************************)
\* the validator of a field of a request: the one named after it, and
\* sanitizeString for a string that has none of its own
ValidatorOf(field) ==
    CASE field \in {"raw", "content"} -> "validateContent"
      [] field = "query" -> "validateQuery"
      [] field = "id" -> "validateId"
      [] field = "layer" -> "validateLayer"
      [] field = "layers" -> "validateLayers"
      [] field = "tags" -> "validateTags"
      [] field = "importance" -> "validateImportance"
      [] field = "limit" -> "validateLimit"
      [] field = "maxTokens" -> "validateMaxTokens"
      [] OTHER -> "sanitizeString"

\* x is a value its validator returns, and returns as it is
IsValidated(field, x) ==
    /\ ValidatorOf(field) = "sanitizeString" => x.t = "string"
    /\ Apply(ValidatorOf(field), x) = Returns(x)

\* C28: every field of the request an invocation has sent is a value that
\* its validator returns: no caller-supplied field is sent raw.
C28_OnlyValidatedFields ==
    \A p \in Procs :
        ops[p].attempts > 0 =>
            LET body == RequestBody(ops[p].entry, ops[p].args)
            IN  \A f \in DOMAIN body :
                    body[f] # Undefined => IsValidated(f, body[f])

=============================================================================
